---- MODULE Spec2Model ----
(***************************************************************************)
(* Model of the two programs of the repository:                            *)
(*   - the grid layout of pic_component_showcase                           *)
(*     (src/src/components/code/examples/pic_component_showcase.py)        *)
(*   - the structural dump of inspect_gds (src/tests/gds/read_gds.py)      *)
(* Specifications:                                                         *)
(*   Spec         the grid packer: a prefix of the catalogue is placed,    *)
(*                forced row breaks may happen between any two placements, *)
(*                the run ends with the forced break and the spiral        *)
(*   ShowcaseSpec the layout run in the order of the source: the whole     *)
(*                catalogue, the forced row break, the spiral              *)
(*   DumpSpec     inspect_gds: open the sink, load, print, close           *)
(***************************************************************************)
EXTENDS Integers, Sequences, FiniteSets

VARIABLES
    \* ---- pic_component_showcase ----
    max_cols,     \* components per row
    x_spacing,    \* horizontal pitch
    y_spacing,    \* vertical pitch
    x_start,      \* x of grid cell (0, 0)
    y_start,      \* y of grid cell (0, 0)
    row,          \* cursor row
    col,          \* cursor column
    placed,       \* references inserted in the component c, in insertion order
    ops,          \* history: the layout operations executed, in order
    \* ---- inspect_gds ----
    log_file,     \* argument log_file
    output,       \* local output: "unset", "stdout" or "file"
    fileState,    \* the log file: "unopened", "open", "closed"
    stdoutClosed, \* TRUE once sys.stdout has been closed
    library,      \* the loaded drawing
    out,          \* the lines written to the sink so far
    pc,           \* position in inspect_gds
    exc           \* the exception in flight ("none" when there is none)

gridVars == <<max_cols, x_spacing, y_spacing, x_start, y_start, row, col,
              placed, ops>>
dumpVars == <<log_file, output, fileState, stdoutClosed, library, out, pc, exc>>
vars == <<max_cols, x_spacing, y_spacing, x_start, y_start, row, col,
          placed, ops,
          log_file, output, fileState, stdoutClosed, library, out, pc, exc>>

----------------------------------------------------------------------------
(* Bounds of the model *)

MaxColsBound == 4     \* max_cols ranges over 1..MaxColsBound
MaxItems == 6         \* placements through add_component_to_grid in Spec
MaxForces == 2        \* forced row breaks in Spec
MaxCells == 2         \* cells of a loaded library
MaxElems == 2         \* elements (polygons, paths, labels, references) of a library
MaxDetail == 1        \* paths and references of a library of varied attributes
MaxColumns == 3       \* columns of an array reference
MaxRows == 2          \* rows of an array reference

----------------------------------------------------------------------------
(* pic_component_showcase: constants of the source *)

ShowcaseXSpacing == 300
ShowcaseYSpacing == 100
ShowcaseXStart == 0
ShowcaseYStart == 0
ShowcaseMaxCols == 4
CaptionOffsetX == 50
CaptionOffsetY == 40

\* The labels of the add_component_to_grid calls, in call order.
Catalogue ==
    << "Ge Photodetector", "Metal Heater", "PN Modulator", "PIN Modulator",
       "Disk Heater", "AWG 10x4", "Ring Single", "Ring Double",
       "CROW (3 rings)", "DBR", "DBR Tapered", "Cavity",
       "MMI 1x2", "MMI 2x2", "MMI 3x3", "MMI 4x4",
       "DC Coupler", "DC Symmetric", "Coupler 90deg", "Adiabatic Coupler",
       "Ring Coupler", "Splitter Tree 1x4", "Splitter Chain",
       "GC TE", "GC TM", "GC Array (4)",
       "MZI", "MZI Phase Shifter", "Edge Coupler", "PSR" >>

NumComponents == Len(Catalogue)

\* Values the grid parameters are drawn from: the values of the source and
\* one other value each.
XSpacings == {ShowcaseXSpacing, 7}
YSpacings == {ShowcaseYSpacing, 3}
XStarts == {ShowcaseXStart, 5}
YStarts == {ShowcaseYStart, -2}

\* A reference inserted in c together with its caption: the cursor it was
\* placed from, the position the reference was moved to, the position the
\* text was moved to.
Placement(label, r, k, x, y, tx, ty) ==
    [label |-> label, row |-> r, col |-> k, x |-> x, y |-> y, tx |-> tx, ty |-> ty]

GridInit ==
    /\ max_cols \in 1..MaxColsBound
    /\ x_spacing \in XSpacings
    /\ y_spacing \in YSpacings
    /\ x_start \in XStarts
    /\ y_start \in YStarts
    /\ row = 0
    /\ col = 0
    /\ placed = <<>>
    /\ ops = <<>>

\* The state of inspect_gds while the layout runs: not started.
DumpIdle ==
    /\ log_file = "None"
    /\ output = "unset"
    /\ fileState = "unopened"
    /\ stdoutClosed = FALSE
    /\ library = [loaded |-> FALSE, cells |-> <<>>]
    /\ out = <<>>
    /\ pc = "idle"
    /\ exc = "none"

\* Variants of add_component_to_grid with a slip in the cursor update.
\* "if col > max_cols" in place of "if col >= max_cols".
add_component_to_grid_WrapLate(label) ==
    LET x_pos == x_start + col * x_spacing
        y_pos == y_start - row * y_spacing
    IN  /\ placed' = Append(placed,
                        Placement(label, row, col, x_pos, y_pos,
                                  x_pos - CaptionOffsetX, y_pos - CaptionOffsetY))
        /\ IF col + 1 > max_cols
              THEN col' = 0 /\ row' = row + 1
              ELSE col' = col + 1 /\ row' = row
        /\ ops' = Append(ops, "place")
        /\ UNCHANGED <<max_cols, x_spacing, y_spacing, x_start, y_start>>
        /\ UNCHANGED dumpVars

\* The wrap increments row and leaves out "col = 0".
add_component_to_grid_KeepCol(label) ==
    LET x_pos == x_start + col * x_spacing
        y_pos == y_start - row * y_spacing
    IN  /\ placed' = Append(placed,
                        Placement(label, row, col, x_pos, y_pos,
                                  x_pos - CaptionOffsetX, y_pos - CaptionOffsetY))
        /\ IF col + 1 >= max_cols
              THEN col' = col + 1 /\ row' = row + 1
              ELSE col' = col + 1 /\ row' = row
        /\ ops' = Append(ops, "place")
        /\ UNCHANGED <<max_cols, x_spacing, y_spacing, x_start, y_start>>
        /\ UNCHANGED dumpVars

\* The wrap does "row = 1" in place of "row += 1".
add_component_to_grid_RowAssign(label) ==
    LET x_pos == x_start + col * x_spacing
        y_pos == y_start - row * y_spacing
    IN  /\ placed' = Append(placed,
                        Placement(label, row, col, x_pos, y_pos,
                                  x_pos - CaptionOffsetX, y_pos - CaptionOffsetY))
        /\ IF col + 1 >= max_cols
              THEN col' = 0 /\ row' = 1
              ELSE col' = col + 1 /\ row' = row
        /\ ops' = Append(ops, "place")
        /\ UNCHANGED <<max_cols, x_spacing, y_spacing, x_start, y_start>>
        /\ UNCHANGED dumpVars

\* add_component_to_grid(component, label)
add_component_to_grid(label) ==
    LET x_pos == x_start + col * x_spacing
        y_pos == y_start - row * y_spacing
    IN  /\ placed' = Append(placed,
                        Placement(label, row, col, x_pos, y_pos,
                                  x_pos - CaptionOffsetX, y_pos - CaptionOffsetY))
        /\ IF col + 1 >= max_cols
              THEN col' = 0 /\ row' = row + 1
              ELSE col' = col + 1 /\ row' = row
        /\ ops' = Append(ops, "place")
        /\ UNCHANGED <<max_cols, x_spacing, y_spacing, x_start, y_start>>
        /\ UNCHANGED dumpVars

\* Variants of the forced row break with a slip.
\* The break is made whatever the column.
forceNewRow_Always ==
    /\ col' = 0
    /\ row' = row + 1
    /\ ops' = Append(ops, "force")
    /\ UNCHANGED <<max_cols, x_spacing, y_spacing, x_start, y_start, placed>>
    /\ UNCHANGED dumpVars

\* The break resets col and leaves out "row += 1".
forceNewRow_NoRowBump ==
    /\ col' = 0
    /\ row' = row
    /\ ops' = Append(ops, "force")
    /\ UNCHANGED <<max_cols, x_spacing, y_spacing, x_start, y_start, placed>>
    /\ UNCHANGED dumpVars

\* "if col == 0" in place of "if col != 0".
forceNewRow_Inverted ==
    /\ IF col = 0
          THEN col' = 0 /\ row' = row + 1
          ELSE col' = col /\ row' = row
    /\ ops' = Append(ops, "force")
    /\ UNCHANGED <<max_cols, x_spacing, y_spacing, x_start, y_start, placed>>
    /\ UNCHANGED dumpVars

\* "Force new row": if col != 0: col = 0; row += 1
forceNewRow ==
    /\ IF col # 0
          THEN col' = 0 /\ row' = row + 1
          ELSE col' = col /\ row' = row
    /\ ops' = Append(ops, "force")
    /\ UNCHANGED <<max_cols, x_spacing, y_spacing, x_start, y_start, placed>>
    /\ UNCHANGED dumpVars

\* Variant of the spiral placement that keeps the former label offset
\* ("Reduced from -80 to -40" was applied to add_component_to_grid only).
PlaceSpiral_OldOffset ==
    LET x_pos == x_start + col * x_spacing
        y_pos == y_start - row * y_spacing
    IN  /\ placed' = Append(placed,
                        Placement("Spiral", row, col, x_pos, y_pos,
                                  x_pos - CaptionOffsetX, y_pos - 80))
        /\ ops' = Append(ops, "spiral")
        /\ UNCHANGED <<max_cols, x_spacing, y_spacing, x_start, y_start, row, col>>
        /\ UNCHANGED dumpVars

\* The spiral and its label, placed at the cursor; the cursor is not advanced.
PlaceSpiral ==
    LET x_pos == x_start + col * x_spacing
        y_pos == y_start - row * y_spacing
    IN  /\ placed' = Append(placed,
                        Placement("Spiral", row, col, x_pos, y_pos,
                                  x_pos - CaptionOffsetX, y_pos - CaptionOffsetY))
        /\ ops' = Append(ops, "spiral")
        /\ UNCHANGED <<max_cols, x_spacing, y_spacing, x_start, y_start, row, col>>
        /\ UNCHANGED dumpVars

\* The last layout operation executed ("none" before the first).
LastOp == IF ops = <<>> THEN "none" ELSE ops[Len(ops)]

\* The number of add_component_to_grid calls and of forced row breaks so far.
NumPlaced == Len(SelectSeq(ops, LAMBDA o : o = "place"))
NumForced == Len(SelectSeq(ops, LAMBDA o : o = "force"))

----------------------------------------------------------------------------
(* Spec: the packer under any interleaving of placements and row breaks *)

Init == GridInit /\ DumpIdle

Place ==
    /\ LastOp # "spiral"
    /\ NumPlaced < MaxItems
    /\ NumPlaced < NumComponents
    /\ add_component_to_grid(Catalogue[NumPlaced + 1])

Break ==
    /\ LastOp # "spiral"
    /\ NumForced < MaxForces
    /\ forceNewRow

Spiral ==
    /\ LastOp = "force"
    /\ PlaceSpiral

Next == Place \/ Break \/ Spiral

Spec == Init /\ [][Next]_vars

----------------------------------------------------------------------------
(* ShowcaseSpec: the layout run in the order of the source *)

ShowcasePlace ==
    /\ LastOp \in {"none", "place"}
    /\ NumPlaced < NumComponents
    /\ add_component_to_grid(Catalogue[NumPlaced + 1])

ShowcaseBreak ==
    /\ LastOp \in {"none", "place"}
    /\ NumPlaced = NumComponents
    /\ forceNewRow

ShowcaseSpiral ==
    /\ LastOp = "force"
    /\ PlaceSpiral

ShowcaseNext == ShowcasePlace \/ ShowcaseBreak \/ ShowcaseSpiral

ShowcaseSpec == Init /\ [][ShowcaseNext]_vars

----------------------------------------------------------------------------
(* inspect_gds: the loaded drawing *)

\* The values of the argument log_file: no log file (None), the empty
\* string, a path.
LogFiles == {"None", "", "out.log"}

\* Truth value of log_file in "if log_file".
Truthy(l) == l \notin {"None", ""}

\* Elements of a cell, by the attributes inspect_gds reads or probes.
Polygons == {[layer |-> 1, datatype |-> 0]}
Paths == [hasLayers : BOOLEAN, hasSpine : BOOLEAN, hasPoints : BOOLEAN]
Labels == {[layer |-> 1, texttype |-> 0]}
References ==
    {[hasCell |-> h, hasColumns |-> FALSE, columns |-> 0, rows |-> 0] : h \in BOOLEAN}
    \cup [hasCell : BOOLEAN, hasColumns : {TRUE},
          columns : 1..MaxColumns, rows : 1..MaxRows]

\* Sequences of exactly n elements of S.
SeqsOfLen(S, n) == [1..n -> S]

\* The cells of at most n elements in all, with paths in PS and references
\* in RS.
CellsUpTo(n, PS, RS) ==
    UNION { UNION { UNION { UNION {
        { [polygons |-> po, paths |-> pa, labels |-> la, references |-> re] :
              po \in SeqsOfLen(Polygons, np), pa \in SeqsOfLen(PS, npa),
              la \in SeqsOfLen(Labels, nl), re \in SeqsOfLen(RS, nr) }
        : nr \in 0..(n - np - npa - nl) }
        : nl \in 0..(n - np - npa) }
        : npa \in 0..(n - np) }
        : np \in 0..n }

CellSize(cell) ==
    Len(cell.polygons) + Len(cell.paths) + Len(cell.labels) + Len(cell.references)

\* The sequences of k cells of at most n elements in all.
RECURSIVE CellSeqs(_, _, _, _)
CellSeqs(k, n, PS, RS) ==
    IF k = 0
        THEN {<<>>}
        ELSE UNION { { <<cell>> \o rest :
                          rest \in CellSeqs(k - 1, n - CellSize(cell), PS, RS) }
                     : cell \in CellsUpTo(n, PS, RS) }

\* Paths and references of the drawings of varied structure: a path of two
\* lines (layers and spine) and a path of one line (no geometry); a plain
\* reference and an array reference.
StructPaths == {p \in Paths : p.hasLayers = p.hasSpine /\ ~p.hasPoints}
StructReferences ==
    {r \in References :
        /\ r.hasCell
        /\ r.hasColumns => (r.columns = MaxColumns /\ r.rows = MaxRows)}

\* Drawings of varied structure: up to MaxCells cells, up to MaxElems
\* elements in all.
StructLibraries ==
    UNION { { [loaded |-> TRUE, cells |-> cs] :
                  cs \in CellSeqs(k, MaxElems, StructPaths, StructReferences) }
            : k \in 0..MaxCells }

\* Drawings of varied attributes: one cell of up to MaxDetail paths and
\* references, of any combination of attributes.
DetailLibraries ==
    { [loaded |-> TRUE, cells |-> <<cell>>] :
          cell \in {c \in CellsUpTo(MaxDetail, Paths, References) :
                        c.polygons = <<>> /\ c.labels = <<>>} }

\* The drawings gdstk.read_gds may return; a cell is named by its index.
Libraries == StructLibraries \cup DetailLibraries

----------------------------------------------------------------------------
(* inspect_gds: the lines of the report *)

\* One print call: its kind, the cell (0 before the first cell) and the
\* element of the cell it is about (0 when about none), the values printed.
Line(kind, c, j, a, b) == [kind |-> kind, cell |-> c, idx |-> j, a |-> a, b |-> b]

RECURSIVE Flatten(_)
Flatten(ss) == IF ss = <<>> THEN <<>> ELSE Head(ss) \o Flatten(Tail(ss))

\* for poly in cell.polygons
PolygonLines(c, j, poly) ==
    << Line("Polygon", c, j, poly.layer, poly.datatype),
       Line("PolygonPoints", c, j, 0, 0) >>

\* for path in cell.paths
PathLines(c, j, path) ==
    << IF path.hasLayers
           THEN Line("PathLayers", c, j, 0, 0)
           ELSE Line("PathLayer", c, j, 0, 0) >>
    \o (IF path.hasSpine
            THEN << Line("PathSpine", c, j, 0, 0) >>
            ELSE IF path.hasPoints
                     THEN << Line("PathPoints", c, j, 0, 0) >>
                     ELSE << >>)

\* for label in cell.labels
LabelLines(c, j, label) ==
    << Line("Label", c, j, label.layer, label.texttype),
       Line("LabelText", c, j, 0, 0) >>

\* Variant of the reference entry with "ref.columns >= 1" in place of
\* "ref.columns > 1".
RefLines_AnyColumns(c, j, ref) ==
    (IF ref.hasCell THEN << Line("Reference", c, j, 0, 0) >> ELSE << >>)
    \o << Line("Origin", c, j, 0, 0),
          Line("Rotation", c, j, 0, 0),
          Line("Magnification", c, j, 0, 0),
          Line("XReflection", c, j, 0, 0) >>
    \o (IF ref.hasColumns /\ ref.columns >= 1
            THEN << Line("Array", c, j, ref.columns, ref.rows),
                    Line("Spacing", c, j, 0, 0) >>
            ELSE << >>)

\* for ref in cell.references
RefLines(c, j, ref) ==
    (IF ref.hasCell THEN << Line("Reference", c, j, 0, 0) >> ELSE << >>)
    \o << Line("Origin", c, j, 0, 0),
          Line("Rotation", c, j, 0, 0),
          Line("Magnification", c, j, 0, 0),
          Line("XReflection", c, j, 0, 0) >>
    \o (IF ref.hasColumns /\ ref.columns > 1
            THEN << Line("Array", c, j, ref.columns, ref.rows),
                    Line("Spacing", c, j, 0, 0) >>
            ELSE << >>)

\* Variant of the cell entry with the label loop before the path loop.
CellLines_LabelsFirst(c, cell) ==
    << Line("Cell", c, 0, c, 0),
       Line("NPolygons", c, 0, Len(cell.polygons), 0),
       Line("NPaths", c, 0, Len(cell.paths), 0),
       Line("NLabels", c, 0, Len(cell.labels), 0),
       Line("NReferences", c, 0, Len(cell.references), 0) >>
    \o Flatten([j \in 1..Len(cell.polygons) |-> PolygonLines(c, j, cell.polygons[j])])
    \o Flatten([j \in 1..Len(cell.labels) |-> LabelLines(c, j, cell.labels[j])])
    \o Flatten([j \in 1..Len(cell.paths) |-> PathLines(c, j, cell.paths[j])])
    \o Flatten([j \in 1..Len(cell.references) |-> RefLines(c, j, cell.references[j])])
    \o << Line("Blank", c, 0, 0, 0) >>

\* for cell in library.cells: the body of the loop
CellLines(c, cell) ==
    << Line("Cell", c, 0, c, 0),
       Line("NPolygons", c, 0, Len(cell.polygons), 0),
       Line("NPaths", c, 0, Len(cell.paths), 0),
       Line("NLabels", c, 0, Len(cell.labels), 0),
       Line("NReferences", c, 0, Len(cell.references), 0) >>
    \o Flatten([j \in 1..Len(cell.polygons) |-> PolygonLines(c, j, cell.polygons[j])])
    \o Flatten([j \in 1..Len(cell.paths) |-> PathLines(c, j, cell.paths[j])])
    \o Flatten([j \in 1..Len(cell.labels) |-> LabelLines(c, j, cell.labels[j])])
    \o Flatten([j \in 1..Len(cell.references) |-> RefLines(c, j, cell.references[j])])
    \o << Line("Blank", c, 0, 0, 0) >>

\* The print calls of the try block, in order.
DumpLines(lib) ==
    << Line("Library", 0, 0, 0, 0),
       Line("NumCells", 0, 0, Len(lib.cells), 0),
       Line("Cells", 0, 0, Len(lib.cells), 0),
       Line("Blank", 0, 0, 0, 0) >>
    \o Flatten([c \in 1..Len(lib.cells) |-> CellLines(c, lib.cells[c])])

----------------------------------------------------------------------------
(* inspect_gds: the steps *)

\* The state of the layout while inspect_gds runs: not started.
GridIdle ==
    /\ max_cols = ShowcaseMaxCols
    /\ x_spacing = ShowcaseXSpacing
    /\ y_spacing = ShowcaseYSpacing
    /\ x_start = ShowcaseXStart
    /\ y_start = ShowcaseYStart
    /\ row = 0
    /\ col = 0
    /\ placed = <<>>
    /\ ops = <<>>

DumpInit ==
    /\ GridIdle
    /\ log_file \in LogFiles
    /\ output = "unset"
    /\ fileState = "unopened"
    /\ stdoutClosed = FALSE
    /\ library = [loaded |-> FALSE, cells |-> <<>>]
    /\ out = <<>>
    /\ pc = "start"
    /\ exc = "none"

\* "Set up output": open(log_file, 'w') succeeds or raises; no log file
\* selects sys.stdout.
SetUpOutput ==
    /\ pc = "start"
    /\ IF Truthy(log_file)
          THEN \/ /\ output' = "file"
                  /\ fileState' = "open"
                  /\ pc' = "try"
                  /\ exc' = exc
               \/ /\ exc' = "open"
                  /\ pc' = "raised"
                  /\ UNCHANGED <<output, fileState>>
          ELSE /\ output' = "stdout"
               /\ pc' = "try"
               /\ UNCHANGED <<fileState, exc>>
    /\ UNCHANGED <<log_file, stdoutClosed, library, out>>
    /\ UNCHANGED gridVars

\* library = gdstk.read_gds(gds_file): returns a drawing or raises.
ReadGds ==
    /\ pc = "try"
    /\ \/ \E lib \in Libraries :
              /\ library' = lib
              /\ pc' = "print"
              /\ exc' = exc
       \/ /\ exc' = "load"
          /\ pc' = "finally"
          /\ library' = library
    /\ UNCHANGED <<log_file, output, fileState, stdoutClosed, out>>
    /\ UNCHANGED gridVars

\* The next print call of the try block, lines being the print calls of
\* the block: the line is written, or the write raises; after the last
\* one the try block is left.
WriteNext(lines) ==
    \/ /\ out' = Append(out, lines[Len(out) + 1])
       /\ pc' = IF Len(out) + 1 = Len(lines) THEN "finally" ELSE "print"
       /\ exc' = exc
    \/ /\ exc' = "write"
       /\ pc' = "finally"
       /\ out' = out

WriteLine ==
    /\ pc = "print"
    /\ \E lines \in {DumpLines(library)} : WriteNext(lines)
    /\ UNCHANGED <<log_file, output, fileState, stdoutClosed, library>>
    /\ UNCHANGED gridVars

\* Variant of the end of inspect_gds without try/finally: the file is
\* closed after the last print only.
Finally_OnSuccessOnly ==
    /\ pc = "finally"
    /\ IF exc = "none" /\ Truthy(log_file) /\ output # "stdout"
          THEN IF output = "file"
                  THEN fileState' = "closed" /\ stdoutClosed' = stdoutClosed
                  ELSE stdoutClosed' = TRUE /\ fileState' = fileState
          ELSE UNCHANGED <<fileState, stdoutClosed>>
    /\ pc' = IF exc = "none" THEN "returned" ELSE "raised"
    /\ UNCHANGED <<log_file, output, library, out, exc>>
    /\ UNCHANGED gridVars

\* finally: if log_file and output != sys.stdout: output.close(); the
\* exception in flight, if any, goes on to the caller.
Finally ==
    /\ pc = "finally"
    /\ IF Truthy(log_file) /\ output # "stdout"
          THEN IF output = "file"
                  THEN fileState' = "closed" /\ stdoutClosed' = stdoutClosed
                  ELSE stdoutClosed' = TRUE /\ fileState' = fileState
          ELSE UNCHANGED <<fileState, stdoutClosed>>
    /\ pc' = IF exc = "none" THEN "returned" ELSE "raised"
    /\ UNCHANGED <<log_file, output, library, out, exc>>
    /\ UNCHANGED gridVars

DumpNext == SetUpOutput \/ ReadGds \/ WriteLine \/ Finally

DumpSpec == DumpInit /\ [][DumpNext]_vars

----------------------------------------------------------------------------
(* Properties of the grid layout *)

\* C1: from a fresh cursor and with no forced row break so far, the k-th
\* placed item (0-indexed) was placed from row = k div max_cols and
\* col = k mod max_cols, at x = x_start + (k mod max_cols) * x_spacing and
\* y = y_start - (k div max_cols) * y_spacing.
C1_RowMajorPlacement ==
    NumForced = 0 =>
        \A i \in 1..Len(placed) :
            LET k == i - 1
            IN  /\ placed[i].row = k \div max_cols
                /\ placed[i].col = k % max_cols
                /\ placed[i].x = x_start + (k % max_cols) * x_spacing
                /\ placed[i].y = y_start - (k \div max_cols) * y_spacing

\* Five items placed with max_cols = 4: the fifth is at (1, 0).
C1_Witness ==
    /\ NumForced = 0
    /\ max_cols = 4
    /\ Len(placed) = 5
    /\ <<placed[4].row, placed[4].col>> = <<0, 3>>
    /\ <<placed[5].row, placed[5].col>> = <<1, 0>>

\* C2: the cursor always satisfies 0 <= col < max_cols, and a placement made
\* at col = max_cols - 1 leaves col = 0 and row one more than the row the
\* item was placed in.
C2_ColInRange ==
    /\ 0 <= col
    /\ col < max_cols
    /\ (LastOp = "place" /\ placed[Len(placed)].col = max_cols - 1) =>
           (col = 0 /\ row = placed[Len(placed)].row + 1)

\* A placement at the last column of a row of several columns, after a
\* forced row break.
C2_Witness ==
    /\ max_cols >= 2
    /\ NumForced >= 1
    /\ LastOp = "place"
    /\ placed[Len(placed)].col = max_cols - 1
    /\ col = 0

\* C3: a forced row break leaves the cursor unchanged iff col = 0 when it is
\* made; when col # 0 it sets col to 0 and adds exactly 1 to row; a forced
\* row break made right after another one changes nothing.
C3_ForceNewRow ==
    [][ (ops' = Append(ops, "force")) =>
            /\ (col = 0) <=> (row' = row /\ col' = col)
            /\ (col # 0) => (col' = 0 /\ row' = row + 1)
            /\ (LastOp = "force") => (row' = row /\ col' = col) ]_vars

\* Two forced row breaks in a row, the first of them made in the middle of
\* a row.
C3_Witness ==
    /\ Len(ops) >= 3
    /\ ops[Len(ops)] = "force"
    /\ ops[Len(ops) - 1] = "force"
    /\ ops[Len(ops) - 2] = "place"
    /\ placed[Len(placed)].col + 1 < max_cols
    /\ row = placed[Len(placed)].row + 1
    /\ col = 0

\* (row, col) positions in lexicographic order.
LexLeq(p, q) == p.row < q.row \/ (p.row = q.row /\ p.col <= q.col)

\* C4: each item is placed at a grid position that is not before the
\* position of the item placed before it; a placement advances the cursor by
\* exactly one grid cell in row-major order; row never decreases.
C4_OrderPreserved ==
    [][ /\ row' >= row
        /\ (ops' = Append(ops, "place")) =>
               row' * max_cols + col' = row * max_cols + col + 1
        /\ \A i \in 2..Len(placed') : LexLeq(placed'[i - 1], placed'[i]) ]_vars

\* A placement that wrapped to the next row, followed by a forced row break
\* and another placement.
C4_Witness ==
    /\ max_cols = 2
    /\ Len(placed) = 4
    /\ ops = <<"place", "place", "place", "force", "place">>
    /\ <<placed[3].row, placed[3].col>> = <<1, 0>>
    /\ <<placed[4].row, placed[4].col>> = <<2, 0>>

\* C5: the caption of every placed item is at (x - 50, y - 40), where (x, y)
\* is the position computed from the cursor the item was placed from, for
\* the items placed by add_component_to_grid and for the spiral.
C5_CaptionOffset ==
    \A i \in 1..Len(placed) :
        /\ placed[i].x = x_start + placed[i].col * x_spacing
        /\ placed[i].y = y_start - placed[i].row * y_spacing
        /\ placed[i].tx = placed[i].x - 50
        /\ placed[i].ty = placed[i].y - 40

\* The spiral placed after items of two rows at least.
C5_Witness ==
    /\ LastOp = "spiral"
    /\ Len(placed) >= 3
    /\ placed[Len(placed)].label = "Spiral"
    /\ placed[Len(placed)].row >= 1
    /\ placed[Len(placed) - 1].col >= 1

\* C6: no two placed items have the same (row, col) grid cell, nor the same
\* (x, y) position.
C6_NoSharedCell ==
    \A i, j \in 1..Len(placed) :
        i < j =>
            /\ <<placed[i].row, placed[i].col>> # <<placed[j].row, placed[j].col>>
            /\ <<placed[i].x, placed[i].y>> # <<placed[j].x, placed[j].y>>

\* Placements on both sides of a forced row break made in the middle of a
\* row, and the spiral after a second one.
C6_Witness ==
    /\ max_cols >= 3
    /\ ops = <<"place", "force", "place", "place", "force", "spiral">>

\* The parameters of the source.
ShowcaseParameters ==
    /\ max_cols = ShowcaseMaxCols
    /\ x_spacing = ShowcaseXSpacing
    /\ y_spacing = ShowcaseYSpacing
    /\ x_start = ShowcaseXStart
    /\ y_start = ShowcaseYStart

\* C7: in the layout run the spiral is placed at col = 0 of a row that no
\* other item is in; with the parameters of the source it comes after 30
\* components, in row 8, at (0, -800).
C7_SpiralOwnRow ==
    LastOp = "spiral" =>
        LET s == placed[Len(placed)]
        IN  /\ s.label = "Spiral"
            /\ s.col = 0
            /\ \A i \in 1..(Len(placed) - 1) : placed[i].row # s.row
            /\ ShowcaseParameters =>
                   /\ Len(placed) = 31
                   /\ s.row = 8
                   /\ <<s.x, s.y>> = <<0, -800>>

\* The end of the layout run with the parameters of the source: the 30th
\* component is in row 7, col 1, the spiral in row 8.
C7_Witness ==
    /\ ShowcaseParameters
    /\ LastOp = "spiral"
    /\ Len(placed) = 31
    /\ <<placed[30].row, placed[30].col>> = <<7, 1>>
    /\ placed[31].row = 8

----------------------------------------------------------------------------
(* Properties of inspect_gds *)

\* inspect_gds was left, by return or by an exception.
Exited == pc \in {"returned", "raised"}

\* C8: a log file that was opened is closed when inspect_gds is left, on
\* normal completion, on a failure of the loader and on a failure of a
\* write, and the failure reaches the caller; without a log file the report
\* goes to standard output, no file is opened, and standard output is never
\* closed.
C8_SinkReleased ==
    /\ stdoutClosed = FALSE
    /\ Exited => fileState # "open"
    /\ (Exited /\ Truthy(log_file) /\ exc # "open") => fileState = "closed"
    /\ (Exited /\ exc # "none") => pc = "raised"
    /\ (~Truthy(log_file)) => (fileState = "unopened" /\ output \in {"unset", "stdout"})
    /\ (Truthy(log_file) /\ out # <<>>) => output = "file"

\* A write to the log file failed in the middle of the report of a cell; the
\* file is closed and the failure is with the caller.
C8_Witness ==
    /\ log_file = "out.log"
    /\ pc = "raised"
    /\ exc = "write"
    /\ fileState = "closed"
    /\ Len(out) >= 6
    /\ Len(out) < Len(DumpLines(library))

\* Position of a line in the report of its cell: the name, the four counts,
\* the polygons, the paths, the labels, the references, the closing blank.
GroupOf(kind) ==
    CASE kind = "Cell" -> 0
      [] kind = "NPolygons" -> 1
      [] kind = "NPaths" -> 2
      [] kind = "NLabels" -> 3
      [] kind = "NReferences" -> 4
      [] kind \in {"Polygon", "PolygonPoints"} -> 5
      [] kind \in {"PathLayers", "PathLayer", "PathSpine", "PathPoints"} -> 6
      [] kind \in {"Label", "LabelText"} -> 7
      [] kind \in {"Reference", "Origin", "Rotation", "Magnification",
                   "XReflection", "Array", "Spacing"} -> 8
      [] kind = "Blank" -> 9

\* The lines of out of one of the given kinds about element j of cell c
\* (j = 0: about the cell itself).
EntriesOf(kinds, c, j) ==
    {i \in 1..Len(out) : out[i].kind \in kinds /\ out[i].cell = c /\ out[i].idx = j}

\* The whole report was written.
DumpComplete == pc \in {"finally", "returned"} /\ exc = "none" /\ library.loaded

\* Line l is not after line m in the order of the report: by cell, then by
\* group, then by element. The order is transitive, so that consecutive
\* lines in order make all lines in order.
InOrder(l, m) ==
    \/ l.cell < m.cell
    \/ /\ l.cell = m.cell
       /\ \/ GroupOf(l.kind) < GroupOf(m.kind)
          \/ /\ GroupOf(l.kind) = GroupOf(m.kind)
             /\ l.idx <= m.idx

\* The line every cell, count and element has: the first line of its entry
\* (for a reference the origin, its first unconditional line).
EntryKinds ==
    {"Cell", "NPolygons", "NPaths", "NLabels", "NReferences",
     "Polygon", "PathLayers", "PathLayer", "Label", "Origin"}

\* The number of elements of cell c that lines of this kind are about, and
\* the number a count line of this kind shows.
ElementsOf(kind, c) ==
    LET cell == library.cells[c]
    IN  CASE kind \in {"NPolygons", "Polygon"} -> Len(cell.polygons)
          [] kind \in {"NPaths", "PathLayers", "PathLayer"} -> Len(cell.paths)
          [] kind \in {"NLabels", "Label"} -> Len(cell.labels)
          [] kind \in {"NReferences", "Origin"} -> Len(cell.references)

\* C9: the report starts with the library name, the cell count and the list
\* of cell names; the lines of a cell come after the lines of the cells
\* before it; within a cell the counts come first, then the polygons, the
\* paths, the labels, the references, each group in the order of the
\* drawing; no cell, count or element is reported twice, every count is the
\* number of elements and, once the report is complete, every cell and
\* every element of it is reported exactly once.
C9_DumpOrder ==
    /\ Len(out) >= 1 => out[1].kind = "Library"
    /\ Len(out) >= 2 => (out[2].kind = "NumCells" /\ out[2].a = Len(library.cells))
    /\ Len(out) >= 3 => out[3].kind = "Cells"
    /\ \A i \in 1..Len(out) :
           /\ i >= 5 <=> out[i].cell >= 1
           /\ out[i].cell <= Len(library.cells)
           /\ out[i].kind \in {"NPolygons", "NPaths", "NLabels", "NReferences"} =>
                  out[i].a = ElementsOf(out[i].kind, out[i].cell)
           /\ out[i].kind \in {"Polygon", "PathLayers", "PathLayer", "Label", "Origin"} =>
                  out[i].idx \in 1..ElementsOf(out[i].kind, out[i].cell)
    /\ \A i \in 5..(Len(out) - 1) : InOrder(out[i], out[i + 1])
    /\ LET entries == SelectSeq(out, LAMBDA l : l.kind \in EntryKinds)
       IN  \A i \in 1..(Len(entries) - 1) :
               /\ InOrder(entries[i], entries[i + 1])
               /\ <<entries[i].cell, GroupOf(entries[i].kind), entries[i].idx>>
                      # <<entries[i + 1].cell, GroupOf(entries[i + 1].kind), entries[i + 1].idx>>
    /\ DumpComplete =>
           \A c \in 1..Len(library.cells) :
               LET cell == library.cells[c]
                   once(kinds, n) ==
                       \A j \in 1..n : Cardinality(EntriesOf(kinds, c, j)) = 1
               IN  /\ once({"Polygon"}, Len(cell.polygons))
                   /\ once({"PathLayers", "PathLayer"}, Len(cell.paths))
                   /\ once({"Label"}, Len(cell.labels))
                   /\ once({"Origin"}, Len(cell.references))
                   /\ \A kind \in {"Cell", "NPolygons", "NPaths", "NLabels", "NReferences"} :
                          Cardinality(EntriesOf({kind}, c, 0)) = 1

\* The complete report of a drawing of two cells, the first with a
\* reference, the second with a polygon.
C9_Witness ==
    /\ DumpComplete
    /\ Len(library.cells) = 2
    /\ Len(library.cells[1].references) = 1
    /\ Len(library.cells[2].polygons) = 1
    /\ Len(out) = Len(DumpLines(library))
    /\ out[Len(out)].kind = "Blank"

\* C10: the array line (column and row counts) and the spacing line of a
\* reference are written exactly when the reference has the attribute
\* columns and columns > 1, whatever its rows; a reference with columns = 1
\* or without array attributes has neither line. The array line shows the
\* columns and rows of the reference and is followed by the spacing line.
C10_ArrayLines ==
    /\ \A i \in 1..Len(out) :
           out[i].kind = "Array" =>
               LET ref == library.cells[out[i].cell].references[out[i].idx]
               IN  /\ ref.hasColumns
                   /\ ref.columns > 1
                   /\ out[i].a = ref.columns
                   /\ out[i].b = ref.rows
                   /\ (i < Len(out) \/ DumpComplete) =>
                          /\ out[i + 1].kind = "Spacing"
                          /\ out[i + 1].cell = out[i].cell
                          /\ out[i + 1].idx = out[i].idx
    /\ \A i \in 1..Len(out) :
           out[i].kind = "Spacing" => (i > 1 /\ out[i - 1].kind = "Array")
    /\ DumpComplete =>
           \A c \in 1..Len(library.cells) :
               \A j \in 1..Len(library.cells[c].references) :
                   LET ref == library.cells[c].references[j]
                   IN  (ref.hasColumns /\ ref.columns > 1)
                           <=> (EntriesOf({"Array"}, c, j) # {})

\* The complete report of a reference of 3 columns and 2 rows, with its
\* array line.
C10_Witness ==
    /\ DumpComplete
    /\ Len(library.cells) = 1
    /\ Len(library.cells[1].references) = 1
    /\ library.cells[1].references[1].columns = 3
    /\ library.cells[1].references[1].rows = 2
    /\ \E i \in 1..Len(out) : out[i].kind = "Array" /\ out[i].a = 3 /\ out[i].b = 2

\* The complete report of a reference of 1 column and 2 rows: no array line.
C10_WitnessSingleColumn ==
    /\ DumpComplete
    /\ Len(library.cells) = 1
    /\ Len(library.cells[1].references) = 1
    /\ library.cells[1].references[1].hasColumns
    /\ library.cells[1].references[1].columns = 1
    /\ library.cells[1].references[1].rows = 2
    /\ \A i \in 1..Len(out) : out[i].kind # "Array"

====
